---- MODULE Spec2Model ----
(***************************************************************************)
(* Renesas RA target support of the Black Magic Debug firmware             *)
(* (src/src/target/renesas.c): renesas_probe, the PNR reader it uses, the  *)
(* memory map it registers and the "uid" monitor command.                  *)
(*                                                                         *)
(* The target is one `target` object plus the memory of the attached chip. *)
(* Every access the driver makes through target_mem_write8 and             *)
(* target_mem_read32 is appended to `log`; every call of renesas_pnr_read  *)
(* is appended to `pnr_calls` with the buffer it decoded and what it       *)
(* returned.                                                               *)
(*                                                                         *)
(* All addresses and words in the model stay below 2^31, so the uint32_t   *)
(* additions and shifts of the source never wrap here.                     *)
(***************************************************************************)
EXTENDS Integers, Sequences, FiniteSets, TLC

(***************************************************************************)
(* Bounds of the model.                                                    *)
(***************************************************************************)
\* most monitor/flash-layer calls made on the target after the probe
MaxCmds == 2
\* most blocks the heap can still hand out when the probe starts
MaxHeap == 3

(***************************************************************************)
(* ASCII codes of the characters the part numbers are written with.        *)
(***************************************************************************)
Chr(c) ==
    CASE c = " " -> 32
      [] c = "1" -> 49 [] c = "2" -> 50 [] c = "3" -> 51 [] c = "4" -> 52
      [] c = "5" -> 53 [] c = "6" -> 54 [] c = "7" -> 55 [] c = "8" -> 56
      [] c = "9" -> 57
      [] c = "A" -> 65 [] c = "B" -> 66 [] c = "C" -> 67 [] c = "D" -> 68
      [] c = "E" -> 69 [] c = "F" -> 70 [] c = "G" -> 71 [] c = "H" -> 72
      [] c = "L" -> 76 [] c = "M" -> 77 [] c = "P" -> 80 [] c = "R" -> 82
      [] c = "T" -> 84 [] c = "W" -> 87 [] c = "X" -> 88 [] c = "Z" -> 90

(***************************************************************************)
(* Constants of renesas.c.                                                 *)
(***************************************************************************)
RENESAS_PARTID_RA6M2 == 336         \* 0x0150
RENESAS_PARTID_RA4M3 == 784         \* 0x0310

PNR_FAMILY_INDEX == 3
PNR_MEMSIZE_INDEX == 8

PNR_SERIES(pnr3, pnr4, pnr5, pnr6) ==
    pnr3 * 16777216 + pnr4 * 65536 + pnr5 * 256 + pnr6

PNR_SERIES_RA2L1 == PNR_SERIES(Chr("A"), Chr("2"), Chr("L"), Chr("1"))
PNR_SERIES_RA2E1 == PNR_SERIES(Chr("A"), Chr("2"), Chr("E"), Chr("1"))
PNR_SERIES_RA2E2 == PNR_SERIES(Chr("A"), Chr("2"), Chr("E"), Chr("2"))
PNR_SERIES_RA2A1 == PNR_SERIES(Chr("A"), Chr("2"), Chr("A"), Chr("1"))
PNR_SERIES_RA4M1 == PNR_SERIES(Chr("A"), Chr("4"), Chr("M"), Chr("1"))
PNR_SERIES_RA4M2 == PNR_SERIES(Chr("A"), Chr("4"), Chr("M"), Chr("2"))
PNR_SERIES_RA4M3 == PNR_SERIES(Chr("A"), Chr("4"), Chr("M"), Chr("3"))
PNR_SERIES_RA4E1 == PNR_SERIES(Chr("A"), Chr("4"), Chr("E"), Chr("1"))
PNR_SERIES_RA4W1 == PNR_SERIES(Chr("A"), Chr("4"), Chr("W"), Chr("1"))
PNR_SERIES_RA6M1 == PNR_SERIES(Chr("A"), Chr("6"), Chr("M"), Chr("1"))
PNR_SERIES_RA6M2 == PNR_SERIES(Chr("A"), Chr("6"), Chr("M"), Chr("2"))
PNR_SERIES_RA6M3 == PNR_SERIES(Chr("A"), Chr("6"), Chr("M"), Chr("3"))
PNR_SERIES_RA6M4 == PNR_SERIES(Chr("A"), Chr("6"), Chr("M"), Chr("4"))
PNR_SERIES_RA6M5 == PNR_SERIES(Chr("A"), Chr("6"), Chr("M"), Chr("5"))
PNR_SERIES_RA6E1 == PNR_SERIES(Chr("A"), Chr("6"), Chr("E"), Chr("1"))
PNR_SERIES_RA6T1 == PNR_SERIES(Chr("A"), Chr("6"), Chr("T"), Chr("1"))
PNR_SERIES_RA6T2 == PNR_SERIES(Chr("A"), Chr("6"), Chr("T"), Chr("2"))

RENESAS_FIXED1_UID == 16784384      \* 0x01001C00
RENESAS_FIXED1_PNR == 16784400      \* 0x01001C10
RENESAS_FIXED2_UID == 16810384      \* 0x01008190
RENESAS_FIXED2_PNR == 16810224      \* 0x010080F0

RENESAS_FMIFRT == 1082110364        \* 0x407FB19C
RENESAS_FMIFRT_UID(frt) == frt + 20 \* frt + 0x14
RENESAS_FMIFRT_PNR(frt) == frt + 36 \* frt + 0x24

RENESAS_SYOCDCR == 1073865742       \* 0x4001E40E
\* renesas_probe names the register SYSC_SYOCDCR; the file defines it as
\* RENESAS_SYOCDCR.
SYSC_SYOCDCR == RENESAS_SYOCDCR
SYOCDCR_DBGEN == 128                \* 1 << 7

NULL == "NULL"

(***************************************************************************)
(* The attached chip: what the debug link can read.                        *)
(***************************************************************************)
\* The 16 characters of a part number: "R7" "F" series(4) feature size-code
\* and the rest, padded with three spaces.
PartNumber(p0, p1, s, code) ==
    [i \in 0..15 |->
        Chr(<<p0, p1, "F", s[1], s[2], s[3], s[4], "A", code,
              "3", "C", "F", "P", " ", " ", " ">>[i + 1])]

SupportedSeriesNames ==
    { <<"A","2","L","1">>, <<"A","2","E","1">>, <<"A","2","E","2">>,
      <<"A","2","A","1">>, <<"A","4","M","1">>, <<"A","4","M","2">>,
      <<"A","4","M","3">>, <<"A","4","E","1">>, <<"A","4","W","1">>,
      <<"A","6","M","1">>, <<"A","6","M","2">>, <<"A","6","M","3">>,
      <<"A","6","M","4">>, <<"A","6","M","5">>, <<"A","6","E","1">>,
      <<"A","6","T","1">>, <<"A","6","T","2">> }

\* a series name the driver has no table entry for
UnknownSeriesNames == { <<"A","9","Z","9">> }

\* a size code of the table, and one outside it
SizeCodes == { "D", "Z" }

\* every size code of the table, and bytes next to them that are not in it
AllSizeCodes ==
    { "3", "5", "7", "9", "B", "C", "D", "E", "F", "G", "H", "4", "8", "A" }

PartNumbers ==
    { PartNumber("R", "7", s, c) :
        s \in SupportedSeriesNames \cup UnknownSeriesNames, c \in SizeCodes }
    \cup { PartNumber("R", "7", <<"A","6","M","2">>, c) : c \in AllSizeCodes }
    \cup { PartNumber("R", "8", <<"A","6","M","2">>, "D"),
           PartNumber("X", "7", <<"A","6","M","2">>, "D") }

\* The part number stored from the lowest address up.
Forward(s) == s
\* The part number as location FIXED1 stores it: the 13 characters in reverse
\* order, then three bytes that the reader does not look at.
Reversed(s, pad) == [j \in 0..15 |-> IF j < 13 THEN s[12 - j] ELSE pad]

Zeroes == [j \in 0..15 |-> 0]

RichImages ==
    { Forward(s) : s \in PartNumbers }
    \cup { Reversed(s, 127) : s \in PartNumbers }
    \cup { Zeroes }

PlainImages ==
    { Zeroes,
      Forward(PartNumber("R", "7", <<"A","4","M","3">>, "D")),
      Reversed(PartNumber("R", "7", <<"A","6","M","1">>, "9"), 32) }

\* Values the FMIFRT register can hold: a flash root table in SRAM, and one
\* whose PNR field lies exactly on RENESAS_FIXED1_PNR.
FrtValues == { 536870912, RENESAS_FIXED1_PNR - 36 }

\* The 16-byte windows of chip memory the model gives contents to.
Windows == { RENESAS_FIXED2_PNR, RENESAS_FIXED1_PNR, RENESAS_FMIFRT_PNR(536870912) }

PartIds == { RENESAS_PARTID_RA4M3, RENESAS_PARTID_RA6M2, 1234 }

VARIABLES
    part_id,          \* t->part_id
    mem,              \* chip memory: window base -> 16 raw bytes
    fmifrt,           \* the word the chip returns at RENESAS_FMIFRT
    heap_blocks,      \* blocks calloc can still hand out when the probe starts
    allocated,        \* blocks calloc has handed out
    pc,               \* "fresh": not probed yet, "probed": renesas_probe returned
    result,           \* what renesas_probe returned (FALSE before it ran)
    priv,             \* the renesas_priv_s the probe allocates (zeroed by calloc)
    target_storage,   \* t->target_storage: NULL or a pointer to priv
    driver,           \* t->driver: NULL or a pointer to priv.pnr
    flash,            \* t->flash: the registered target_flash_s, in call order
    ram,              \* t->ram: the registered RAM regions, in call order
    commands,         \* names of the commands registered on the target
    enter_flash_mode, \* t->enter_flash_mode
    log,              \* accesses made through the debug link, in order
    pnr_calls,        \* calls of renesas_pnr_read, in order
    ncmds,            \* commands and flash-layer calls made after the probe
    cmd_result        \* the last of them and what it returned

vars == << part_id, mem, fmifrt, heap_blocks, allocated, pc, result,
           priv, target_storage, driver, flash, ram, commands, enter_flash_mode,
           log, pnr_calls, ncmds, cmd_result >>

(***************************************************************************)
(* Debug link primitives (target_mem_read32, target_mem_write8).           *)
(***************************************************************************)
\* one byte of chip memory; memory outside the windows reads as 0
MemByte(m, addr) ==
    IF \E b \in DOMAIN m : addr >= b /\ addr < b + 16
    THEN LET b == CHOOSE w \in DOMAIN m : addr >= w /\ addr < w + 16
         IN m[b][addr - b]
    ELSE 0

\* a little-endian 32-bit read
target_mem_read32(m, f, addr) ==
    IF addr = RENESAS_FMIFRT
    THEN f
    ELSE MemByte(m, addr) + MemByte(m, addr + 1) * 256
         + MemByte(m, addr + 2) * 65536 + MemByte(m, addr + 3) * 16777216

Read32(m, f, addr) == [op |-> "read32", addr |-> addr, val |-> target_mem_read32(m, f, addr)]
Write8(addr, val) == [op |-> "write8", addr |-> addr, val |-> val]

\* (uint8_t)(w >> s)
ShiftByte(w, s) == (w \div (2 ^ s)) % 256

(***************************************************************************)
(* renesas_pnr_read, renesas_series, renesas_flash_size.                   *)
(***************************************************************************)
\* the four words renesas_pnr_read fetches, pnrr[0..3]
PnrWords(m, f, base) == [i \in 0..3 |-> target_mem_read32(m, f, base + i * 4)]

\* the accesses renesas_pnr_read makes, in order
PnrReads(m, f, base) == [k \in 1..4 |-> Read32(m, f, base + (k - 1) * 4)]

\* PnrDecode without the special case of RENESAS_FIXED1_PNR
PnrDecodeForwardOnly(base, pnrr) ==
    [i \in 0..15 |-> ShiftByte(pnrr[i \div 4], (i % 4) * 8)]

\* the buffer renesas_pnr_read fills from pnrr
PnrDecode(base, pnrr) ==
    IF base = RENESAS_FIXED1_PNR
    THEN [i \in 0..15 |->
            IF i < 13
            THEN ShiftByte(pnrr[3 - ((i + 3) \div 4)], 24 - ((i + 3) % 4) * 8)
            ELSE 32]
    ELSE [i \in 0..15 |-> ShiftByte(pnrr[i \div 4], (i % 4) * 8)]

\* PnrValid looking at the first character only
PnrValidFirstOnly(pnr) == pnr[0] = Chr("R")

\* the value renesas_pnr_read returns: all Renesas mcus start with 'R7'
PnrValid(pnr) == pnr[0] = Chr("R") /\ pnr[1] = Chr("7")

renesas_pnr_read(m, f, base) ==
    LET pnr == PnrDecode(base, PnrWords(m, f, base))
    IN [base |-> base, pnr |-> pnr, ok |-> PnrValid(pnr)]

renesas_fmifrt_read(m, f) == target_mem_read32(m, f, RENESAS_FMIFRT)

RECURSIVE SeriesFold(_, _, _)
SeriesFold(pnr, i, series) ==
    IF i = 4 THEN series
    ELSE SeriesFold(pnr, i + 1, series * 256 + pnr[PNR_FAMILY_INDEX + i])

renesas_series(pnr) == SeriesFold(pnr, 0, 0)

\* renesas_flash_size with the 1.5 MB case returning the 1 MB size
renesas_flash_size_1_5MBas1MB(pnr) ==
    LET c == pnr[PNR_MEMSIZE_INDEX]
    IN CASE c = Chr("3") -> 16 * 1024
         [] c = Chr("5") -> 32 * 1024
         [] c = Chr("7") -> 64 * 1024
         [] c = Chr("9") -> 128 * 1024
         [] c = Chr("B") -> 256 * 1024
         [] c = Chr("C") -> 384 * 1024
         [] c = Chr("D") -> 512 * 1024
         [] c = Chr("E") -> 768 * 1024
         [] c = Chr("F") -> 1024 * 1024
         [] c = Chr("G") -> 1024 * 1024
         [] c = Chr("H") -> 2048 * 1024
         [] OTHER -> 0

\* renesas_flash_size whose default is the smallest size of the table
renesas_flash_size_default16K(pnr) ==
    LET c == pnr[PNR_MEMSIZE_INDEX]
    IN CASE c = Chr("5") -> 32 * 1024
         [] c = Chr("7") -> 64 * 1024
         [] c = Chr("9") -> 128 * 1024
         [] c = Chr("B") -> 256 * 1024
         [] c = Chr("C") -> 384 * 1024
         [] c = Chr("D") -> 512 * 1024
         [] c = Chr("E") -> 768 * 1024
         [] c = Chr("F") -> 1024 * 1024
         [] c = Chr("G") -> 1536 * 1024
         [] c = Chr("H") -> 2048 * 1024
         [] OTHER -> 16 * 1024

renesas_flash_size(pnr) ==
    LET c == pnr[PNR_MEMSIZE_INDEX]
    IN CASE c = Chr("3") -> 16 * 1024
         [] c = Chr("5") -> 32 * 1024
         [] c = Chr("7") -> 64 * 1024
         [] c = Chr("9") -> 128 * 1024
         [] c = Chr("B") -> 256 * 1024
         [] c = Chr("C") -> 384 * 1024
         [] c = Chr("D") -> 512 * 1024
         [] c = Chr("E") -> 768 * 1024
         [] c = Chr("F") -> 1024 * 1024
         [] c = Chr("G") -> 1536 * 1024
         [] c = Chr("H") -> 2048 * 1024
         [] OTHER -> 0

(***************************************************************************)
(* renesas_add_flash, as renesas_probe calls it: with four arguments       *)
(* (t, addr, length, page_size).  Only the definition at lines 274-287     *)
(* takes them.  The other definition of that name (lines 289-342) takes    *)
(* three, switches on the series to install renesas_enter_flash_mode and   *)
(* calls renesas_add_rv40_flash, neither of which the file defines; no     *)
(* call in the file has its shape.                                         *)
(***************************************************************************)
FlashRegion(addr, length, page_size) ==
    [start |-> addr, length |-> length, erased |-> 255, blocksize |-> page_size,
     erase |-> "renesas_flash_erase", write |-> "renesas_flash_write"]

\* st = [flash, allocated]: the region list and the blocks handed out so far
renesas_add_flash(st, heap, addr, length, page_size) ==
    IF st.allocated >= heap
    THEN st                      \* calloc failed: heap exhaustion
    ELSE [flash |-> Append(st.flash, FlashRegion(addr, length, page_size)),
          allocated |-> st.allocated + 1]

\* renesas_flash_erase and renesas_flash_write: return 0, touch nothing
renesas_flash_erase == 0
renesas_flash_write == 0

(***************************************************************************)
(* The memory map by series (the second switch of renesas_probe).          *)
(***************************************************************************)
KB == 1024

Entry(flash_addr, flash_len, rams) ==
    [known |-> TRUE, flash_addr |-> flash_addr, flash_len |-> flash_len, ram |-> rams]

Region(start, length) == [start |-> start, length |-> length]

\* SeriesMap without the default arm: every series gets the first entry
SeriesMapNoDefault(series) ==
    Entry(1074790400, 8 * KB, << Region(536870912, 32 * KB) >>)

SeriesMap(series) ==
    CASE series \in {PNR_SERIES_RA2L1, PNR_SERIES_RA2A1, PNR_SERIES_RA4M1} ->
            Entry(1074790400, 8 * KB, << Region(536870912, 32 * KB) >>)
      [] series = PNR_SERIES_RA2E1 ->
            Entry(1074790400, 4 * KB, << Region(536887296, 16 * KB) >>)
      [] series = PNR_SERIES_RA2E2 ->
            Entry(1074790400, 2 * KB, << Region(536887296, 8 * KB) >>)
      [] series \in {PNR_SERIES_RA4M2, PNR_SERIES_RA4M3, PNR_SERIES_RA4E1} ->
            Entry(134217728, 8 * KB,
                  << Region(536870912, 128 * KB), Region(671088640, 1024) >>)
      [] series = PNR_SERIES_RA4W1 ->
            Entry(1074790400, 8 * KB, << Region(536870912, 96 * KB) >>)
      [] series = PNR_SERIES_RA6M1 ->
            Entry(1074790400, 8 * KB,
                  << Region(536870912, 128 * KB), Region(536739840, 128 * KB),
                     Region(537911296, 8 * KB) >>)
      [] series = PNR_SERIES_RA6M2 ->
            Entry(1074790400, 32 * KB,
                  << Region(536870912, 256 * KB), Region(536739840, 128 * KB),
                     Region(537911296, 8 * KB) >>)
      [] series = PNR_SERIES_RA6M3 ->
            Entry(1074790400, 64 * KB,
                  << Region(536870912, 256 * KB), Region(537133056, 256 * KB),
                     Region(536739840, 128 * KB), Region(537911296, 8 * KB) >>)
      [] series \in {PNR_SERIES_RA6M4, PNR_SERIES_RA6E1} ->
            Entry(134217728, 8 * KB,
                  << Region(536870912, 256 * KB), Region(671088640, 1024) >>)
      [] series = PNR_SERIES_RA6M5 ->
            Entry(134217728, 8 * KB,
                  << Region(536870912, 512 * KB), Region(671088640, 1024) >>)
      [] series = PNR_SERIES_RA6T1 ->
            Entry(1074790400, 8 * KB, << Region(536739840, 64 * KB) >>)
      [] series = PNR_SERIES_RA6T2 ->
            Entry(134217728, 16 * KB,
                  << Region(536870912, 64 * KB), Region(671088640, 1024) >>)
      [] OTHER -> [known |-> FALSE]

(***************************************************************************)
(* Reading the PNR (the first switch of renesas_probe).  Each arm yields   *)
(* found: whether the switch was left by `break`; pnr, flash_root_table:   *)
(* the locals at that point; log, calls: what the arm read.                *)
(***************************************************************************)
Arm(found, pnr, frt, accesses, calls) ==
    [found |-> found, pnr |-> pnr, flash_root_table |-> frt,
     log |-> accesses, calls |-> calls]

\* ReadPnrFixed2 that goes on to RENESAS_FIXED1_PNR when the read fails
ReadPnrFixed2ThenFixed1(m, f) ==
    LET r2 == renesas_pnr_read(m, f, RENESAS_FIXED2_PNR)
        r1 == renesas_pnr_read(m, f, RENESAS_FIXED1_PNR)
    IN IF r2.ok
       THEN Arm(TRUE, r2.pnr, 0, PnrReads(m, f, RENESAS_FIXED2_PNR), << r2 >>)
       ELSE Arm(r1.ok, r1.pnr, 0,
                PnrReads(m, f, RENESAS_FIXED2_PNR) \o PnrReads(m, f, RENESAS_FIXED1_PNR),
                << r2, r1 >>)

\* case RENESAS_PARTID_RA4M3
ReadPnrFixed2(m, f) ==
    LET r == renesas_pnr_read(m, f, RENESAS_FIXED2_PNR)
    IN Arm(r.ok, r.pnr, 0, PnrReads(m, f, RENESAS_FIXED2_PNR), << r >>)

\* ReadPnrRootTable that reads the pointer but leaves flash_root_table 0
ReadPnrRootTableNotKept(m, f) ==
    LET frt == renesas_fmifrt_read(m, f)
        r == renesas_pnr_read(m, f, RENESAS_FMIFRT_PNR(frt))
    IN Arm(r.ok, r.pnr, 0,
           << Read32(m, f, RENESAS_FMIFRT) >> \o PnrReads(m, f, RENESAS_FMIFRT_PNR(frt)),
           << r >>)

\* case RENESAS_PARTID_RA6M2
ReadPnrRootTable(m, f) ==
    LET frt == renesas_fmifrt_read(m, f)
        r == renesas_pnr_read(m, f, RENESAS_FMIFRT_PNR(frt))
    IN Arm(r.ok, r.pnr, frt,
           << Read32(m, f, RENESAS_FMIFRT) >> \o PnrReads(m, f, RENESAS_FMIFRT_PNR(frt)),
           << r >>)

\* ReadPnrBruteForce trying RENESAS_FIXED1_PNR before RENESAS_FIXED2_PNR
ReadPnrBruteForceFixed1First(m, f) ==
    LET r2 == renesas_pnr_read(m, f, RENESAS_FIXED2_PNR)
        r1 == renesas_pnr_read(m, f, RENESAS_FIXED1_PNR)
        frt == renesas_fmifrt_read(m, f)
        rt == renesas_pnr_read(m, f, RENESAS_FMIFRT_PNR(frt))
        log1 == PnrReads(m, f, RENESAS_FIXED1_PNR)
        log2 == log1 \o PnrReads(m, f, RENESAS_FIXED2_PNR)
        logt == log2 \o << Read32(m, f, RENESAS_FMIFRT) >>
                     \o PnrReads(m, f, RENESAS_FMIFRT_PNR(frt))
    IN IF r1.ok THEN Arm(TRUE, r1.pnr, 0, log1, << r1 >>)
       ELSE IF r2.ok THEN Arm(TRUE, r2.pnr, 0, log2, << r1, r2 >>)
       ELSE Arm(rt.ok, rt.pnr, frt, logt, << r1, r2, rt >>)

\* default: unknown part_id, brute force
ReadPnrBruteForce(m, f) ==
    LET r2 == renesas_pnr_read(m, f, RENESAS_FIXED2_PNR)
        r1 == renesas_pnr_read(m, f, RENESAS_FIXED1_PNR)
        frt == renesas_fmifrt_read(m, f)
        rt == renesas_pnr_read(m, f, RENESAS_FMIFRT_PNR(frt))
        log2 == PnrReads(m, f, RENESAS_FIXED2_PNR)
        log1 == log2 \o PnrReads(m, f, RENESAS_FIXED1_PNR)
        logt == log1 \o << Read32(m, f, RENESAS_FMIFRT) >>
                     \o PnrReads(m, f, RENESAS_FMIFRT_PNR(frt))
    IN IF r2.ok THEN Arm(TRUE, r2.pnr, 0, log2, << r2 >>)
       ELSE IF r1.ok THEN Arm(TRUE, r1.pnr, 0, log1, << r2, r1 >>)
       ELSE Arm(rt.ok, rt.pnr, frt, logt, << r2, r1, rt >>)

ReadPnr(part, m, f) ==
    CASE part = RENESAS_PARTID_RA4M3 -> ReadPnrFixed2(m, f)
      [] part = RENESAS_PARTID_RA6M2 -> ReadPnrRootTable(m, f)
      [] OTHER -> ReadPnrBruteForce(m, f)

(***************************************************************************)
(* renesas_probe.                                                          *)
(***************************************************************************)
PRIV_STORAGE == "priv_storage"
PRIV_PNR == "priv_storage->pnr"

\* calloc(1, sizeof(renesas_priv_s))
ZeroPriv == [pnr |-> Zeroes, series |-> 0, flash_root_table |-> 0]

\* the target as renesas_probe leaves it, and what it returns
Outcome(ret, p, storage, drv, st, rams, cmds, accesses, calls) ==
    [result |-> ret, priv |-> p, target_storage |-> storage, driver |-> drv,
     flash |-> st.flash, allocated |-> st.allocated, ram |-> rams,
     commands |-> cmds, log |-> accesses, pnr_calls |-> calls]

\* lines 442-528: the memory map, the code flash and the command list
RegisterMap(p, pnr, heap, accesses, calls) ==
    LET e == SeriesMap(p.series)
        st0 == [flash |-> << >>, allocated |-> 1]
    IN IF ~e.known
       THEN Outcome(FALSE, p, PRIV_STORAGE, PRIV_PNR, st0, << >>, {}, accesses, calls)
       ELSE LET st1 == renesas_add_flash(st0, heap, e.flash_addr, e.flash_len, 64)
                st2 == renesas_add_flash(st1, heap, 0, renesas_flash_size(pnr), 8 * KB)
            IN Outcome(TRUE, p, PRIV_STORAGE, PRIV_PNR, st2, e.ram, {"uid"},
                       accesses, calls)

\* lines 431-440: the private storage
AttachPriv(a, heap, accesses) ==
    IF heap = 0
    THEN Outcome(FALSE, ZeroPriv, NULL, NULL, [flash |-> << >>, allocated |-> 0],
                 << >>, {}, accesses, a.calls)
    ELSE RegisterMap([pnr |-> a.pnr, series |-> renesas_series(a.pnr),
                      flash_root_table |-> a.flash_root_table],
                     a.pnr, heap, accesses, a.calls)

\* EnableDebug done as a 32-bit write
EnableDebug32 == << [op |-> "write32", addr |-> SYSC_SYOCDCR, val |-> SYOCDCR_DBGEN] >>

\* lines 346-352: enable debug, no read back
EnableDebug == << Write8(SYSC_SYOCDCR, SYOCDCR_DBGEN) >>

renesas_probe(part, m, f, heap) ==
    LET a == ReadPnr(part, m, f)
        accesses == EnableDebug \o a.log
    IN IF ~a.found
       THEN Outcome(FALSE, ZeroPriv, NULL, NULL, [flash |-> << >>, allocated |-> 0],
                    << >>, {}, accesses, a.calls)
       ELSE AttachPriv(a, heap, accesses)

(***************************************************************************)
(* renesas_uid.                                                            *)
(***************************************************************************)
\* UidAddr taking the PNR offset of the flash root table for the UID
UidAddrPnrOffset(p) ==
    CASE p.series \in {PNR_SERIES_RA2L1, PNR_SERIES_RA2E1, PNR_SERIES_RA2E2} ->
            RENESAS_FIXED1_UID
      [] p.series \in {PNR_SERIES_RA6M1, PNR_SERIES_RA6M2, PNR_SERIES_RA6M3,
                       PNR_SERIES_RA6T1} ->
            RENESAS_FMIFRT_PNR(p.flash_root_table)
      [] OTHER -> RENESAS_FIXED2_UID

\* the address the switch on the series picks; 0 stands for `return false`
UidAddr(p) ==
    CASE p.series \in {PNR_SERIES_RA2L1, PNR_SERIES_RA2E1, PNR_SERIES_RA2E2} ->
            RENESAS_FIXED1_UID
      [] p.series \in {PNR_SERIES_RA2A1, PNR_SERIES_RA4M1, PNR_SERIES_RA4M2,
                       PNR_SERIES_RA4M3, PNR_SERIES_RA4E1, PNR_SERIES_RA4W1,
                       PNR_SERIES_RA6M4, PNR_SERIES_RA6M5, PNR_SERIES_RA6E1,
                       PNR_SERIES_RA6T2} ->
            RENESAS_FIXED2_UID
      [] p.series \in {PNR_SERIES_RA6M1, PNR_SERIES_RA6M2, PNR_SERIES_RA6M3,
                       PNR_SERIES_RA6T1} ->
            RENESAS_FMIFRT_UID(p.flash_root_table)
      [] OTHER -> 0

UidKnown(p) ==
    p.series \in {PNR_SERIES_RA2L1, PNR_SERIES_RA2E1, PNR_SERIES_RA2E2,
                  PNR_SERIES_RA2A1, PNR_SERIES_RA4M1, PNR_SERIES_RA4M2,
                  PNR_SERIES_RA4M3, PNR_SERIES_RA4E1, PNR_SERIES_RA4W1,
                  PNR_SERIES_RA6M4, PNR_SERIES_RA6M5, PNR_SERIES_RA6E1,
                  PNR_SERIES_RA6T2, PNR_SERIES_RA6M1, PNR_SERIES_RA6M2,
                  PNR_SERIES_RA6M3, PNR_SERIES_RA6T1}

\* the accesses renesas_uid_read makes, in order
renesas_uid_read(m, f, base) == [k \in 1..4 |-> Read32(m, f, base + (k - 1) * 4)]

(***************************************************************************)
(* The state machine.                                                      *)
(***************************************************************************)
Init ==
    /\ part_id \in PartIds
    /\ fmifrt \in FrtValues
    /\ \E focus \in Windows, rich \in RichImages, plain \in [Windows -> PlainImages] :
          mem = [w \in Windows |-> IF w = focus THEN rich ELSE plain[w]]
    /\ heap_blocks \in 0..MaxHeap
    /\ allocated = 0
    /\ pc = "fresh"
    /\ result = FALSE
    /\ priv = ZeroPriv
    /\ target_storage = NULL
    /\ driver = NULL
    /\ flash = << >>
    /\ ram = << >>
    /\ commands = {}
    /\ enter_flash_mode = NULL
    /\ log = << >>
    /\ pnr_calls = << >>
    /\ ncmds = 0
    /\ cmd_result = [fn |-> "none", ret |-> 0]

\* bool renesas_probe(target *t)
Probe ==
    /\ pc = "fresh"
    /\ \E o \in { renesas_probe(part_id, mem, fmifrt, heap_blocks) } :
          /\ result' = o.result
          /\ priv' = o.priv
          /\ target_storage' = o.target_storage
          /\ driver' = o.driver
          /\ flash' = o.flash
          /\ allocated' = o.allocated
          /\ ram' = o.ram
          /\ commands' = o.commands
          /\ log' = o.log
          /\ pnr_calls' = o.pnr_calls
    /\ pc' = "probed"
    /\ UNCHANGED << part_id, mem, fmifrt, heap_blocks, enter_flash_mode, ncmds, cmd_result >>

\* renesas_uid(t, argc, argv) run on the target.  The command list reaches it
\* only after a successful probe; it is run after a failed one as well, where
\* its own guards (no private storage, series outside the switch) decide.
Uid ==
    /\ pc = "probed"
    /\ ncmds < MaxCmds
    /\ ncmds' = ncmds + 1
    /\ IF target_storage = NULL \/ ~UidKnown(priv)
       THEN /\ cmd_result' = [fn |-> "uid", ret |-> 0]
            /\ UNCHANGED log
       ELSE /\ cmd_result' = [fn |-> "uid", ret |-> 1]
            /\ log' = log \o renesas_uid_read(mem, fmifrt, UidAddr(priv))
    /\ UNCHANGED << part_id, mem, fmifrt, heap_blocks, allocated, pc, result, priv,
                    target_storage, driver, flash, ram, commands, enter_flash_mode,
                    pnr_calls >>

\* the flash layer calls f->erase of a registered region
FlashErase ==
    /\ pc = "probed"
    /\ ncmds < MaxCmds
    /\ \E k \in 1..Len(flash) :
          /\ flash[k].erase = "renesas_flash_erase"
          /\ cmd_result' = [fn |-> "erase", ret |-> renesas_flash_erase]
    /\ ncmds' = ncmds + 1
    /\ UNCHANGED << part_id, mem, fmifrt, heap_blocks, allocated, pc, result, priv,
                    target_storage, driver, flash, ram, commands, enter_flash_mode,
                    log, pnr_calls >>

\* the flash layer calls f->write of a registered region
FlashWrite ==
    /\ pc = "probed"
    /\ ncmds < MaxCmds
    /\ \E k \in 1..Len(flash) :
          /\ flash[k].write = "renesas_flash_write"
          /\ cmd_result' = [fn |-> "write", ret |-> renesas_flash_write]
    /\ ncmds' = ncmds + 1
    /\ UNCHANGED << part_id, mem, fmifrt, heap_blocks, allocated, pc, result, priv,
                    target_storage, driver, flash, ram, commands, enter_flash_mode,
                    log, pnr_calls >>

Next == Probe \/ Uid \/ FlashErase \/ FlashWrite

Spec == Init /\ [][Next]_vars

(***************************************************************************)
(* What the properties below are stated in: the raw bytes of chip memory,  *)
(* the accesses of `log`, and the calls of `pnr_calls`.                    *)
(***************************************************************************)
\* the raw byte of chip memory at an address
Raw(addr) == MemByte(mem, addr)

\* The part number a location holds, read off the raw bytes: at
\* RENESAS_FIXED1_PNR character i is the byte at base + (12 - i) and the last
\* three are spaces; elsewhere character i is the byte at base + i.
Stored(base) ==
    [i \in 0..15 |->
        IF base = 16784400
        THEN IF i <= 12 THEN Raw(base + (12 - i)) ELSE 32
        ELSE Raw(base + i)]

StartsR7(pnr) == pnr[0] = 82 /\ pnr[1] = 55

\* the addresses of the four words of a PNR location
WordsAt(base) == << base, base + 4, base + 8, base + 12 >>

\* renesas_probe has returned and nothing else has run since
JustProbed == pc = "probed" /\ ncmds = 0

\* the addresses the probe accessed after its first access, in order
LaterAddrs == [k \in 1..(Len(log) - 1) |-> log[k + 1].addr]

BruteForceId == part_id \notin {784, 336}

\* the location renesas_pnr_read was last called on, and what it decoded
LastCall == pnr_calls[Len(pnr_calls)]

\* characters 3..6 of a part number
SeriesText(pnr) == << pnr[3], pnr[4], pnr[5], pnr[6] >>

KnownSeriesText ==
    { << Chr(n[1]), Chr(n[2]), Chr(n[3]), Chr(n[4]) >> : n \in SupportedSeriesNames }

\* series whose flash is an RV40 controller, and those with MF3/MF4
RV40SeriesText ==
    { << Chr(n[1]), Chr(n[2]), Chr(n[3]), Chr(n[4]) >> :
        n \in { <<"A","4","M","2">>, <<"A","4","M","3">>, <<"A","4","E","1">>,
                <<"A","6","M","1">>, <<"A","6","M","2">>, <<"A","6","M","3">>,
                <<"A","6","M","4">>, <<"A","6","M","5">>, <<"A","6","E","1">>,
                <<"A","6","T","1">>, <<"A","6","T","2">> } }

SizeCodeTable ==
    { Chr("3"), Chr("5"), Chr("7"), Chr("9"), Chr("B"), Chr("C"), Chr("D"),
      Chr("E"), Chr("F"), Chr("G"), Chr("H") }

NothingRegistered == flash = << >> /\ ram = << >> /\ commands = {}

(***************************************************************************)
(* C1.  With a part id that is neither 0x0310 nor 0x0150 the probe reads   *)
(* the PNR locations in the order FIXED2 (0x010080F0), FIXED1              *)
(* (0x01001C10), root table (pointer from FMIFRT, PNR at pointer + 0x24);  *)
(* it stops at the first one whose part number starts with "R7", reads no  *)
(* later location and uses that part number; if none starts with "R7" it   *)
(* returns false.                                                          *)
(***************************************************************************)
C1_BruteForceOrder ==
    (JustProbed /\ BruteForceId) =>
        LET v2 == StartsR7(Stored(16810224))
            v1 == StartsR7(Stored(16784400))
            vt == StartsR7(Stored(fmifrt + 36))
        IN /\ v2 =>
                /\ LaterAddrs = WordsAt(16810224)
                /\ target_storage # NULL => priv.pnr = Stored(16810224)
           /\ (~v2 /\ v1) =>
                /\ LaterAddrs = WordsAt(16810224) \o WordsAt(16784400)
                /\ target_storage # NULL => priv.pnr = Stored(16784400)
           /\ (~v2 /\ ~v1) =>
                /\ LaterAddrs = WordsAt(16810224) \o WordsAt(16784400)
                                  \o << 1082110364 >> \o WordsAt(fmifrt + 36)
                /\ target_storage # NULL => priv.pnr = Stored(fmifrt + 36)
           /\ (v2 \/ v1 \/ vt) => (heap_blocks > 0 => target_storage # NULL)
           /\ (~v2 /\ ~v1 /\ ~vt) => (result = FALSE /\ target_storage = NULL)

\* only the root-table location holds a part number, and the probe took it
C1_Witness ==
    /\ JustProbed /\ BruteForceId
    /\ ~StartsR7(Stored(16810224))
    /\ ~StartsR7(Stored(16784400))
    /\ StartsR7(Stored(fmifrt + 36))
    /\ result = TRUE
    /\ Len(log) = 14

(***************************************************************************)
(* C2.  With part id 0x0310 the probe reads the PNR only at 0x010080F0;    *)
(* with part id 0x0150 it reads the pointer at FMIFRT and then the PNR     *)
(* only at pointer + 0x24.  If that part number does not start with "R7"   *)
(* the probe returns false, having read no other location and registered   *)
(* no region and no command.                                               *)
(***************************************************************************)
C2_KnownIdSingleLocation ==
    /\ (JustProbed /\ part_id = 784) =>
          /\ LaterAddrs = WordsAt(16810224)
          /\ ~StartsR7(Stored(16810224)) => (result = FALSE /\ NothingRegistered)
    /\ (JustProbed /\ part_id = 336) =>
          /\ LaterAddrs = << 1082110364 >> \o WordsAt(fmifrt + 36)
          /\ ~StartsR7(Stored(fmifrt + 36)) => (result = FALSE /\ NothingRegistered)

\* part id 0x0310, nothing at FIXED2, while FIXED1 does hold a part number
C2_Witness ==
    /\ JustProbed /\ part_id = 784
    /\ ~StartsR7(Stored(16810224))
    /\ StartsR7(Stored(16784400))
    /\ result = FALSE

(***************************************************************************)
(* C3.  When the part number starts with "R7" but its series (characters   *)
(* 3..6) is none of the 17 known series, the probe returns false and has   *)
(* registered no RAM region, no flash region and no "uid" command.         *)
(***************************************************************************)
C3_UnknownSeriesNoMap ==
    (pc = "probed" /\ Len(pnr_calls) > 0 /\ StartsR7(Stored(LastCall.base))
       /\ SeriesText(Stored(LastCall.base)) \notin KnownSeriesText)
    => (result = FALSE /\ ram = << >> /\ flash = << >> /\ "uid" \notin commands)

\* an "R7" part number of an unknown series was read with heap to spare
C3_Witness ==
    /\ pc = "probed" /\ Len(pnr_calls) > 0 /\ StartsR7(Stored(LastCall.base))
    /\ SeriesText(Stored(LastCall.base)) \notin KnownSeriesText
    /\ heap_blocks = 3
    /\ result = FALSE

(***************************************************************************)
(* C4.  Whenever the probe returns false, no private identity state stays  *)
(* attached to the target: target_storage and the driver name do not point *)
(* at a renesas_priv_s of that probe.                                      *)
(***************************************************************************)
C4_NoPrivAfterFailure ==
    (pc = "probed" /\ result = FALSE) => (target_storage = NULL /\ driver = NULL)

(***************************************************************************)
(* C5.  After a successful probe the flash wiring follows the series: for  *)
(* the RV40 series the flash regions carry the RV40 erase/write entry      *)
(* points and enter_flash_mode is installed; for the other series the hook *)
(* is not installed and erase/write are the functions that return 0        *)
(* without touching the target.                                            *)
(***************************************************************************)
C5_FlashWiringBySeries ==
    (pc = "probed" /\ result = TRUE) =>
        IF SeriesText(priv.pnr) \in RV40SeriesText
        THEN /\ enter_flash_mode # NULL
             /\ \A k \in 1..Len(flash) :
                   /\ flash[k].erase # "renesas_flash_erase"
                   /\ flash[k].write # "renesas_flash_write"
        ELSE /\ enter_flash_mode = NULL
             /\ \A k \in 1..Len(flash) :
                   /\ flash[k].erase = "renesas_flash_erase"
                   /\ flash[k].write = "renesas_flash_write"
             /\ cmd_result.fn \in {"erase", "write"} => cmd_result.ret = 0

(***************************************************************************)
(* C6.  End to end, root-table scheme: part id 0x0150, FMIFRT reads        *)
(* 0x20000000, the 16 bytes at 0x20000024 hold a part number beginning     *)
(* "R7FA6M2".  Then the probe returns true, the stored series is RA6M2,    *)
(* the stored flash root table address is 0x20000000, and the map has a    *)
(* flash region of 32 KiB at 0x40100000 and a RAM region of 256 KiB at     *)
(* 0x20000000.                                                             *)
(***************************************************************************)
C6_Scenario ==
    /\ pc = "probed"
    /\ part_id = 336
    /\ fmifrt = 536870912
    /\ [i \in 0..6 |-> Stored(536870948)[i]]
         = [i \in 0..6 |-> Chr(<< "R", "7", "F", "A", "6", "M", "2" >>[i + 1])]

C6_Result ==
    /\ result = TRUE
    /\ target_storage # NULL
    /\ priv.series = 1094077746          \* 'A' '6' 'M' '2' = 0x41364D32
    /\ priv.flash_root_table = 536870912
    /\ \E k \in 1..Len(flash) :
          flash[k].start = 1074790400 /\ flash[k].length = 32768
    /\ \E k \in 1..Len(ram) :
          ram[k].start = 536870912 /\ ram[k].length = 262144

C7_PnrDecoding ==
    \A k \in 1..Len(pnr_calls) :
        LET c == pnr_calls[k]
        IN IF c.base = 16784400
           THEN /\ \A i \in 0..12 : c.pnr[i] = Raw(c.base + (12 - i))
                /\ \A i \in 13..15 : c.pnr[i] = 32
           ELSE \A i \in 0..15 : c.pnr[i] = Raw(c.base + i)

\* both layouts were decoded in one probe: the reversed one from a location
\* whose last three raw bytes are not spaces, the forward one from the root
\* table
C7_Witness ==
    /\ Len(pnr_calls) = 3
    /\ pnr_calls[2].base = 16784400
    /\ Raw(16784400 + 13) = 127
    /\ Raw(16784400 + 12) = 88
    /\ pnr_calls[2].pnr[0] = 88 /\ pnr_calls[2].pnr[1] = 55
    /\ pnr_calls[3].base = 536870948
    /\ pnr_calls[3].ok

(***************************************************************************)
(* C8.  renesas_pnr_read reports success exactly when the first two        *)
(* decoded bytes are 'R' and '7', whatever bytes 2..15 are; so the probe   *)
(* never computes a series, attaches identity or registers a region from   *)
(* a buffer that does not start with "R7".                                 *)
(***************************************************************************)
C8_R7Gate ==
    /\ \A k \in 1..Len(pnr_calls) :
          pnr_calls[k].ok <=> (pnr_calls[k].pnr[0] = 82 /\ pnr_calls[k].pnr[1] = 55)
    /\ (target_storage # NULL \/ priv # ZeroPriv \/ flash # << >> \/ ram # << >>
          \/ commands # {})
       => /\ Len(pnr_calls) > 0
          /\ priv.pnr = LastCall.pnr
          /\ priv.pnr[0] = 82 /\ priv.pnr[1] = 55
          /\ Raw(IF LastCall.base = 16784400 THEN LastCall.base + 12 ELSE LastCall.base) = 82
          /\ Raw(IF LastCall.base = 16784400 THEN LastCall.base + 11 ELSE LastCall.base + 1) = 55

\* a buffer "R8FA6M2..." (a supported series behind a bad prefix) was refused
C8_Witness ==
    /\ pc = "probed"
    /\ Len(pnr_calls) = 1
    /\ LastCall.pnr[0] = 82 /\ LastCall.pnr[1] = 56
    /\ SeriesText(LastCall.pnr) \in KnownSeriesText
    /\ ~LastCall.ok
    /\ target_storage = NULL /\ NothingRegistered

(***************************************************************************)
(* C9.  In every run of renesas_probe, for every part id, the first target *)
(* access is one 8-bit write of the debug-enable bit (0x80) to the OCD     *)
(* control register (0x4001E40E); it happens once, before any PNR or       *)
(* FMIFRT read, and the register is never read back.                       *)
(***************************************************************************)
C9_DebugEnableFirst ==
    /\ pc = "fresh" => log = << >>
    /\ pc = "probed" =>
          /\ Len(log) >= 5
          /\ log[1] = [op |-> "write8", addr |-> 1073865742, val |-> 128]
          /\ \A k \in 2..Len(log) :
                log[k].op = "read32" /\ log[k].addr # 1073865742

C9_Witness ==
    /\ pc = "probed" /\ ncmds = 0
    /\ part_id = 336
    /\ Len(log) = 6
    /\ log[2].addr = 1082110364

(***************************************************************************)
(* C10.  For every supported series, when the flash-size code at PNR index *)
(* 8 is outside the code table, the probe still returns true, every RAM    *)
(* region of the series' table entry is registered, and the code-flash     *)
(* entry registered at base 0 has length 0.                                *)
(***************************************************************************)
C10_Scenario ==
    /\ pc = "probed"
    /\ Len(pnr_calls) > 0
    /\ StartsR7(Stored(LastCall.base))
    /\ SeriesText(Stored(LastCall.base)) \in KnownSeriesText
    /\ Stored(LastCall.base)[8] \notin SizeCodeTable

CodeFlashKiB(code) ==
    CASE code = 51 -> 16   [] code = 53 -> 32   [] code = 55 -> 64
      [] code = 57 -> 128  [] code = 66 -> 256  [] code = 67 -> 384
      [] code = 68 -> 512  [] code = 69 -> 768  [] code = 70 -> 1024
      [] code = 71 -> 1536 [] code = 72 -> 2048 [] OTHER -> 0

\* the registered flash regions that start at address 0
CodeFlashRegions == { k \in 1..Len(flash) : flash[k].start = 0 }

CodeFlashAsTabled ==
    \A k \in CodeFlashRegions :
        /\ flash[k].blocksize = 8192
        /\ flash[k].length = CodeFlashKiB(Stored(LastCall.base)[8]) * 1024

TextOf(names) == { << Chr(n[1]), Chr(n[2]), Chr(n[3]), Chr(n[4]) >> : n \in names }

Fixed1UidSeries == TextOf({ <<"A","2","L","1">>, <<"A","2","E","1">>, <<"A","2","E","2">> })

Fixed2UidSeries ==
    TextOf({ <<"A","2","A","1">>, <<"A","4","M","1">>, <<"A","4","M","2">>,
             <<"A","4","M","3">>, <<"A","4","E","1">>, <<"A","4","W","1">>,
             <<"A","6","M","4">>, <<"A","6","M","5">>, <<"A","6","E","1">>,
             <<"A","6","T","2">> })

RootTableUidSeries ==
    TextOf({ <<"A","6","M","1">>, <<"A","6","M","2">>, <<"A","6","M","3">>,
             <<"A","6","T","1">> })

\* the four reads of a UID at an address, with what the chip returns
UidReadsAt(addr) ==
    [k \in 1..4 |-> [op |-> "read32", addr |-> addr + (k - 1) * 4,
                     val |-> target_mem_read32(mem, fmifrt, addr + (k - 1) * 4)]]

\* this step is a run of the uid command
UidStep == ncmds' = ncmds + 1 /\ cmd_result'.fn = "uid"

UidFails == cmd_result'.ret = 0 /\ log' = log
UidReads(addr) == cmd_result'.ret = 1 /\ log' = log \o UidReadsAt(addr)

C12_UidAddressBySeries ==
    [][ UidStep =>
          /\ LET series == SeriesText(priv.pnr)
             IN IF target_storage = NULL THEN UidFails
                ELSE IF series \in Fixed1UidSeries THEN UidReads(16784384)
                ELSE IF series \in Fixed2UidSeries THEN UidReads(16810384)
                ELSE IF series \in RootTableUidSeries
                     THEN UidReads(priv.flash_root_table + 20)
                ELSE UidFails
          /\ UNCHANGED << priv, target_storage, driver, flash, ram, commands,
                          enter_flash_mode >>
      ]_vars

\* uid ran on an RA6M2 found through the root table and read its UID there
C12_Witness ==
    /\ cmd_result = [fn |-> "uid", ret |-> 1]
    /\ ncmds = 1
    /\ SeriesText(priv.pnr) = << 65, 54, 77, 50 >>
    /\ priv.flash_root_table = 536870912
    /\ Len(log) = 10
    /\ log[7].addr = 536870932 /\ log[10].addr = 536870944

(***************************************************************************)
(* C13.  After a successful probe, whenever the uid command reads the UID  *)
(* at the stored flash root table address + 0x14 (stored series RA6M1,     *)
(* RA6M2, RA6M3 or RA6T1), that stored address is the value the probe read *)
(* from FMIFRT (0x407FB19C), never the initial 0 left when the identity    *)
(* was found at a fixed location; this for every part id.                  *)
(***************************************************************************)
C13_RootTableAddressWasRead ==
    (pc = "probed" /\ result = TRUE /\ cmd_result = [fn |-> "uid", ret |-> 1]
       /\ SeriesText(priv.pnr) \in RootTableUidSeries)
    => /\ \E k \in 1..Len(log) : log[k].op = "read32" /\ log[k].addr = 1082110364
       /\ priv.flash_root_table = fmifrt
       /\ priv.flash_root_table # 0

====
